---------------------------- MODULE Spec2Model ----------------------------
(***************************************************************************)
(* Icon conversion of app-builder (package icons): the source resolver,    *)
(* the ConvertIcon pipeline and the ICNS encoder ConvertToIcns, with the   *)
(* file system, the decoder, the resampler, the PNG/ICO encoders and the   *)
(* temporary-file factory as an environment that may fail.                 *)
(***************************************************************************)
EXTENDS Integers, Sequences, FiniteSets, TLC

(***************************************************************************)
(* Bounds of the model.                                                    *)
(***************************************************************************)
\* longest content, in bytes, of a pre-rendered per-size file of a directory
MaxFileLen == 1

(***************************************************************************)
(* Strings, paths and bytes.                                               *)
(***************************************************************************)
\* strings.HasSuffix
HasSuffix(s, suffix) ==
    /\ Len(s) >= Len(suffix)
    /\ SubSeq(s, Len(s) - Len(suffix) + 1, Len(s)) = suffix

\* filepath.IsAbs (unix)
IsAbs(p) == Len(p) >= 1 /\ SubSeq(p, 1, 1) = "/"

\* filepath.Clean, on the paths of the model: trailing separators are dropped
RECURSIVE Clean(_)
Clean(p) ==
    IF Len(p) > 1 /\ SubSeq(p, Len(p), Len(p)) = "/"
    THEN Clean(SubSeq(p, 1, Len(p) - 1))
    ELSE p

\* filepath.Join of a root and a name
Join(root, name) == IF root = "" THEN Clean(name) ELSE Clean(root \o "/" \o name)

Pow2(n) == 2 ^ n

\* binary.BigEndian.PutUint32 of uint32(v), v >= 0: the four low bytes of v, the
\* most significant first (the top byte is taken modulo 256, which is uint32's cut)
PutUint32(v) ==
    << (v \div Pow2(24)) % 256, (v \div Pow2(16)) % 256, (v \div Pow2(8)) % 256, v % 256 >>

\* binary.BigEndian.Uint32: the number four bytes stand for
Uint32(b) == ((b[1] * 256 + b[2]) * 256 + b[3]) * 256 + b[4]

\* the byte of one character of an OSType
Ascii(c) ==
    CASE c = "i" -> 105 [] c = "c" -> 99 [] c = "p" -> 112 [] c = "n" -> 110
      [] c = "s" -> 115 [] c = "0" -> 48 [] c = "1" -> 49 [] c = "2" -> 50
      [] c = "3" -> 51 [] c = "4" -> 52 [] c = "5" -> 53 [] c = "6" -> 54
      [] c = "7" -> 55 [] c = "8" -> 56 [] c = "9" -> 57

\* []byte(ostype)
Bytes(str) == [i \in 1..Len(str) |-> Ascii(SubSeq(str, i, i))]

(***************************************************************************)
(* Program constants.                                                      *)
(***************************************************************************)
icnsHeader == << 105, 99, 110, 115 >>

icnsExpectedSizes == << 16, 32, 64, 128, 256, 512, 1024 >>

sizeToType(size) ==
    CASE size = 16 -> << "icp4" >>
      [] size = 32 -> << "icp5", "ic11" >>
      [] size = 64 -> << "icp6", "ic12" >>
      [] size = 128 -> << "ic07" >>
      [] size = 256 -> << "ic08", "ic13" >>
      [] size = 512 -> << "ic09", "ic14" >>
      [] size = 1024 -> << "ic10" >>

(***************************************************************************)
(* State.                                                                  *)
(***************************************************************************)
VARIABLES
    sourceFiles,    \* argument: the candidate names, in order
    roots,          \* argument: the search roots, in order
    outputFormat,   \* argument: "icns", "ico", "set" or a raster extension
    disk,           \* environment: the paths os.Stat succeeds on, [path, dir]
    srcDim,         \* environment: <<width, height>> of every single image file
    collected,      \* environment: what CollectIcons returns for a directory
    fileLen,        \* environment: length of the content of a per-size file
    pc,             \* position of the run of ConvertIcon
    resolvedPath,   \* ConvertIcon: resolvedPath
    fileIsDir,      \* ConvertIcon: fileInfo.IsDir()
    inputInfo,      \* ConvertIcon: inputInfo
    idx,            \* ConvertToIcns: index of the loop over icnsExpectedSizes
    icns,           \* ConvertToIcns: the buffer icns
    outFile,        \* the temporary output file: [name, bytes], or NoFile
    result,         \* the returned []IconInfo, or NoResult
    err,            \* the returned error, or NoError
    trace           \* history of the run, for the properties

vars == << sourceFiles, roots, outputFormat, disk, srcDim, collected, fileLen, pc,
           resolvedPath, fileIsDir, inputInfo, idx, icns, outFile, result, err, trace >>

env == << sourceFiles, roots, outputFormat, disk, srcDim, collected, fileLen >>

NoFile == [name |-> "", bytes |-> << >>, created |-> FALSE]
NoResult == "no result"
NoError == [kind |-> "nil", file |-> "", min |-> 0]
NoImage == [w |-> 0, h |-> 0, src |-> ""]

Error(kind, file, min) == [kind |-> kind, file |-> file, min |-> min]

\* NewImageSizeError
NewImageSizeError(file, requiredMinSize) == Error("ImageSize", file, requiredMinSize)

\* IconInfo
IconInfo(file, size) == [File |-> file, Size |-> size]

(***************************************************************************)
(* Source resolution.                                                      *)
(***************************************************************************)
Stat(p) == \E f \in disk : f.path = p

IsDir(p) == \E f \in disk : f.path = p /\ f.dir

Found(p) == [path |-> p, found |-> TRUE, err |-> NoError]
Null == [path |-> "", found |-> FALSE, err |-> NoError]
Fail(e) == [path |-> "", found |-> FALSE, err |-> e]

\* the loop over roots of resolveSourceFileOrNull, from root i on
RECURSIVE ProbeRoots(_, _, _)
ProbeRoots(sourceFile, rs, i) ==
    IF i > Len(rs) THEN Null
    ELSE IF Stat(Join(rs[i], sourceFile)) THEN Found(Join(rs[i], sourceFile))
    ELSE ProbeRoots(sourceFile, rs, i + 1)

resolveSourceFileOrNull(sourceFile, rs) ==
    IF IsAbs(sourceFile)
    THEN IF Stat(Clean(sourceFile))
         THEN Found(Clean(sourceFile))
         ELSE Fail(Error("Stat", Clean(sourceFile), 0))
    ELSE ProbeRoots(sourceFile, rs, 1)

\* the name tried after a candidate that did not resolve
FallbackCandidate(sourceFile, extraExtension) ==
    IF extraExtension = ".png" /\ sourceFile = "icons"
    THEN "icon.png"
    ELSE sourceFile \o extraExtension

\* the loop over sourceFiles of resolveSourceFile, from candidate i on
RECURSIVE ResolveFrom(_, _, _, _)
ResolveFrom(files, rs, extraExtension, i) ==
    IF i > Len(files) THEN Fail(Error("NotFound", "", 0))
    ELSE LET direct == resolveSourceFileOrNull(files[i], rs)
             again == resolveSourceFileOrNull(FallbackCandidate(files[i], extraExtension), rs)
         IN  IF direct.err # NoError THEN Fail(direct.err)
             ELSE IF direct.found THEN direct
             ELSE IF extraExtension # "" /\ again.err # NoError THEN Fail(again.err)
             ELSE IF extraExtension # "" /\ again.found THEN again
             ELSE ResolveFrom(files, rs, extraExtension, i + 1)

resolveSourceFile(files, rs, extraExtension) == ResolveFrom(files, rs, extraExtension, 1)

outputFormatToSingleFileExtension(format) ==
    IF format = "set" THEN ".png" ELSE "." \o format

recommendedMinSize(format) == IF format = "icns" THEN 512 ELSE 256

(***************************************************************************)
(* The collaborators: what they return when they succeed.                  *)
(***************************************************************************)
\* the file name CollectIcons gives the icon of a size
SizeName(size) ==
    CASE size = 8 -> "8x8.png" [] size = 16 -> "16x16.png" [] size = 32 -> "32x32.png"
      [] size = 48 -> "48x48.png" [] size = 128 -> "128x128.png"
      [] size = 256 -> "256x256.png" [] size = 300 -> "300x300.png"
      [] size = 512 -> "512x512.png" [] size = 1024 -> "1024x1024.png"

\* CollectIcons(dir): one IconInfo per size present, ascending by size
CollectIcons(dir) ==
    [i \in 1..Len(collected.sizes) |->
        [File |-> dir \o "/" \o SizeName(collected.sizes[i]), Size |-> collected.sizes[i]]]

\* ConvertIcnsToPng(path)
ConvertIcnsToPng(path) == << [File |-> path \o ".512.png", Size |-> 512] >>

\* the pixel dimensions of the image stored at a path
DimOf(path) ==
    IF \E i \in 1..Len(collected.sizes) : HasSuffix(path, "/" \o SizeName(collected.sizes[i]))
    THEN LET i == CHOOSE j \in 1..Len(collected.sizes) :
                      HasSuffix(path, "/" \o SizeName(collected.sizes[j]))
         IN  << collected.sizes[i], collected.sizes[i] >>
    ELSE srcDim

\* LoadImage(path), DecodeImageConfig(path)
LoadImage(path) == [w |-> DimOf(path)[1], h |-> DimOf(path)[2], src |-> path]

\* imaging.Resize(img, width, height, imaging.Lanczos)
Resize(img, width, height) == [w |-> width, h |-> height, src |-> img.src]

\* png.Encode: the signature, the dimensions and the pixels (named by their source)
PngEncode(img) ==
    << 137, 80, 78, 71, img.w \div 256, img.w % 256, img.h \div 256, img.h % 256,
       Len(img.src) % 256 >>

\* ioutil.ReadFile(path)
ReadFile(path) == [i \in 1..fileLen |-> (Len(path) + i) % 256]

\* IsIco(firstFileBytes): the model's .ico files hold ICO data
IsIco(path) == HasSuffix(path, ".ico")

\* GetIcoSizes(firstFileBytes): a 16x16 entry and one of the source's dimensions
GetIcoSizes(path) == << [Width |-> 16, Height |-> 16], [Width |-> srcDim[1], Height |-> srcDim[2]] >>

\* SaveImage2(img, outFile, ICO): the ICO header and the entry's dimensions
IcoEncode(img) == << 0, 0, 1, 0, img.w % 256, img.h % 256 >>

\* util.TempFile("", ext): the name of the file it creates
TempName(ext) == "/tmp/out-1" \o ext

(***************************************************************************)
(* Inputs and environments of a run.                                       *)
(***************************************************************************)
SourceFileLists ==
    { << "icon" >>, << "icons" >>, << "icon.png" >>, << "/abs/missing", "icon.png" >>,
      << "/abs/app.png/" >>, << "missing", "icons" >>, << "icon.icns" >> }

Formats == { "icns", "ico", "set", "png" }

RootLists == { << "/p/build", "/p" >> }

F(p) == [path |-> p, dir |-> FALSE]
D(p) == [path |-> p, dir |-> TRUE]

Disks ==
    { {},
      { D("/p/build/icons") },
      { F("/p/icon.png") },
      { F("/p/build/icon.png"), F("/p/icon.png") },
      { F("/p/icon.icns") },
      { F("/p/build/icon.ico"), F("/p/icon.png") },
      { F("/abs/app.png") },
      { F("/p/icon"), F("/p/icon.icns") },
      { D("/p/build/icons"), F("/p/icon.png") },
      { D("/p/build/icon.icns") },
      { D("/p/icons"), F("/p/build/icon.png"), F("/abs/app.png") } }

SrcDims == { << 128, 128 >>, << 300, 300 >>, << 512, 512 >>, << 1024, 1024 >>,
             << 600, 512 >>, << 600, 300 >>, << 256, 1024 >> }

Collected ==
    { [ok |-> FALSE, sizes |-> << >>] } \cup
    { [ok |-> TRUE, sizes |-> s] :
        s \in { << >>, << 8 >>, << 128 >>, << 512 >>, << 16, 48, 300 >>, << 16, 32, 256, 1024 >> } }

NoTrace ==
    [stepFailed |-> FALSE,     \* a step of the run has failed
     tempFiles |-> 0,          \* temporary files created
     validated |-> FALSE,      \* validateImageSize was called
     decoded |-> FALSE,        \* LoadImage was called
     collectCalled |-> FALSE,  \* CollectIcons was called
     class |-> "",             \* passthrough, directory or single
     payloads |-> << >>,       \* per size written: [size, data, from]
     encoderInput |-> NoImage] \* the image handed to SaveImage2

Init ==
    /\ sourceFiles \in SourceFileLists
    /\ roots \in RootLists
    /\ outputFormat \in Formats
    /\ disk \in Disks
    /\ srcDim \in SrcDims
    /\ collected \in Collected
    /\ fileLen \in 0..MaxFileLen
    /\ pc = "start"
    /\ resolvedPath = ""
    /\ fileIsDir = FALSE
    /\ inputInfo = [MaxIconSize |-> 0, MaxIconPath |-> "", SizeToPath |-> << >>,
                    maxImage |-> NoImage, recommendedMinSize |-> 0]
    /\ idx = 0
    /\ icns = << >>
    /\ outFile = NoFile
    /\ result = NoResult
    /\ err = NoError
    /\ trace = NoTrace

(***************************************************************************)
(* ConvertIcon.                                                            *)
(***************************************************************************)
\* return artifacts, nil
Return(artifacts) == pc' = "done" /\ result' = artifacts /\ err' = NoError

\* return nil, errors.WithStack(e)
Abort(e) == pc' = "failed" /\ result' = NoResult /\ err' = e

outExt == outputFormatToSingleFileExtension(outputFormat)

\* lines 236-249: resolve the source, make inputInfo
Resolve ==
    /\ pc = "start"
    /\ LET r == resolveSourceFile(sourceFiles, roots, outExt)
       IN  IF r.err # NoError
           THEN /\ Abort(r.err)
                /\ trace' = [trace EXCEPT !.stepFailed = TRUE]
                /\ UNCHANGED << resolvedPath, fileIsDir, inputInfo >>
           ELSE /\ resolvedPath' = r.path
                /\ fileIsDir' = IsDir(r.path)
                /\ inputInfo' = [inputInfo EXCEPT
                                   !.recommendedMinSize = recommendedMinSize(outputFormat)]
                /\ pc' = "classify"
                /\ UNCHANGED << result, err, trace >>
    /\ UNCHANGED << env, idx, icns, outFile >>

\* validateImageSize(file, min): the errors it may return (NoError: nil)
validateImageSize(file, min) ==
    { Error("Read", file, 0) } \cup
    IF IsDir(file) THEN {}
    ELSE IF IsIco(file)
    THEN IF \E i \in 1..Len(GetIcoSizes(file)) :
                GetIcoSizes(file)[i].Width >= min /\ GetIcoSizes(file)[i].Height >= min
         THEN { NoError }
         ELSE { NewImageSizeError(file, min) }
    ELSE { Error("Decode", file, 0) } \cup
         IF LoadImage(file).w >= min /\ LoadImage(file).h >= min
         THEN { NoError }
         ELSE { NewImageSizeError(file, min) }

\* mutant of NeedsValidation: every passed-through file is validated
NeedsValidationAlways(format) == TRUE

\* line 253: a passed-through file is validated unless the target is icns
NeedsValidation(format) == format # "icns"

\* lines 252-262: the resolved path already has the target's extension
Passthrough ==
    /\ pc = "classify"
    /\ HasSuffix(resolvedPath, outExt)
    /\ IF NeedsValidation(outputFormat)
       THEN \E e \in validateImageSize(resolvedPath, inputInfo.recommendedMinSize) :
               /\ trace' = [trace EXCEPT !.validated = TRUE, !.class = "passthrough",
                                         !.stepFailed = (e # NoError)]
               /\ IF e = NoError
                  THEN Return(<< IconInfo(resolvedPath, 0) >>)
                  ELSE Abort(e)
       ELSE /\ trace' = [trace EXCEPT !.class = "passthrough"]
            /\ Return(<< IconInfo(resolvedPath, 0) >>)
    /\ UNCHANGED << env, resolvedPath, fileIsDir, inputInfo, idx, icns, outFile >>

\* mutant of maxIcon: the first collected icon, not the last
maxIconFirst(icons) == icons[1]

\* line 278: maxIcon := icons[len(icons)-1]
maxIcon(icons) == icons[Len(icons)]

\* lines 274-276: every collected icon into SizeToPath (a later one replaces an earlier)
RECURSIVE RecordSizes(_, _, _)
RecordSizes(sizeToPath, icons, i) ==
    IF i > Len(icons) THEN sizeToPath
    ELSE RecordSizes((icons[i].Size :> icons[i].File) @@ sizeToPath, icons, i + 1)

\* lines 264-280: the resolved path is a directory
Directory ==
    /\ pc = "classify"
    /\ ~HasSuffix(resolvedPath, outExt)
    /\ fileIsDir
    /\ LET icons == CollectIcons(resolvedPath)
       IN  IF ~collected.ok
           THEN /\ Abort(Error("Collect", resolvedPath, 0))
                /\ trace' = [trace EXCEPT !.collectCalled = TRUE, !.class = "directory",
                                          !.stepFailed = TRUE]
                /\ UNCHANGED inputInfo
           ELSE /\ trace' = [trace EXCEPT !.collectCalled = TRUE, !.class = "directory"]
                /\ IF outputFormat = "set"
                   THEN Return(icons) /\ UNCHANGED inputInfo
                   ELSE IF Len(icons) = 0
                   THEN \* icons[len(icons)-1] with no icon: index out of range, a panic
                        /\ pc' = "panic"
                        /\ inputInfo' = [inputInfo EXCEPT
                                           !.SizeToPath = RecordSizes(inputInfo.SizeToPath, icons, 1)]
                        /\ UNCHANGED << result, err >>
                   ELSE /\ inputInfo' = [inputInfo EXCEPT
                                           !.SizeToPath = RecordSizes(inputInfo.SizeToPath, icons, 1),
                                           !.MaxIconPath = maxIcon(icons).File,
                                           !.MaxIconSize = maxIcon(icons).Size]
                        /\ pc' = "encode"
                        /\ UNCHANGED << result, err >>
    /\ UNCHANGED << env, resolvedPath, fileIsDir, idx, icns, outFile >>

\* mutant of TooSmall: only the width is compared
TooSmallWidthOnly(img, min) == img.w < min

\* line 341: the decoded image is below the required minimum
TooSmall(img, min) == img.w < min \/ img.h < min

\* loadImage(sourceFile, min): the images or errors it may return
loadImage(sourceFile, min) ==
    { [img |-> NoImage, err |-> Error("Decode", sourceFile, 0)] } \cup
    IF TooSmall(LoadImage(sourceFile), min)
    THEN { [img |-> NoImage, err |-> NewImageSizeError(sourceFile, min)] }
    ELSE { [img |-> LoadImage(sourceFile), err |-> NoError] }

\* lines 295-298: the master of an ICO is shrunk to 256x256 when wider than 256
CapForIco(img, isOutputFormatIco) ==
    IF isOutputFormatIco /\ img.w > 256 THEN Resize(img, 256, 256) ELSE img

\* lines 281-303: the resolved path is a single file
SingleImage ==
    /\ pc = "classify"
    /\ ~HasSuffix(resolvedPath, outExt)
    /\ ~fileIsDir
    /\ IF outputFormat = "set" /\ HasSuffix(resolvedPath, ".icns")
       THEN /\ \E ok \in BOOLEAN :
                 /\ trace' = [trace EXCEPT !.class = "single", !.stepFailed = ~ok]
                 /\ IF ok THEN Return(ConvertIcnsToPng(resolvedPath))
                          ELSE Abort(Error("Extract", resolvedPath, 0))
            /\ UNCHANGED inputInfo
       ELSE \E r \in loadImage(resolvedPath, inputInfo.recommendedMinSize) :
               /\ trace' = [trace EXCEPT !.class = "single", !.decoded = TRUE,
                                         !.stepFailed = (r.err # NoError)]
               /\ IF r.err # NoError
                  THEN Abort(r.err) /\ UNCHANGED inputInfo
                  ELSE LET maxImage == CapForIco(r.img, outputFormat = "ico")
                       IN  /\ inputInfo' = [inputInfo EXCEPT
                                  !.MaxIconSize = maxImage.w,
                                  !.maxImage = maxImage,
                                  !.SizeToPath = (maxImage.w :> resolvedPath) @@ inputInfo.SizeToPath]
                           /\ pc' = "encode"
                           /\ UNCHANGED << result, err >>
    /\ UNCHANGED << env, resolvedPath, fileIsDir, idx, icns, outFile >>

(***************************************************************************)
(* ConvertToIcns.                                                          *)
(***************************************************************************)
\* lines 305-307 and 32-34: dispatch to ConvertToIcns, which starts with an empty buffer
StartIcns ==
    /\ pc = "encode"
    /\ outputFormat = "icns"
    /\ pc' = "icns"
    /\ idx' = 1
    /\ icns' = << >>
    /\ UNCHANGED << env, resolvedPath, fileIsDir, inputInfo, outFile, result, err, trace >>

\* mutant of Skips: a size up to twice the master is still written
SkipsAboveDouble(size, maxIconSize) == size > 2 * maxIconSize

\* line 37: a size above the master is skipped
Skips(size, maxIconSize) == size > maxIconSize

\* mutant of ChunkLength: the 8 bytes of tag and length are not counted
ChunkLengthOfPayload(imageData) == PutUint32(Len(imageData))

\* line 70: the chunk's length field
ChunkLength(imageData) == PutUint32(Len(imageData) + 8)

\* lines 73-86: one chunk per OSType of the size, from OSType i on
RECURSIVE Chunks(_, _, _)
Chunks(ostypes, imageData, i) ==
    IF i > Len(ostypes) THEN << >>
    ELSE Bytes(ostypes[i]) \o ChunkLength(imageData) \o imageData
            \o Chunks(ostypes, imageData, i + 1)

\* line 44: existingFile, exists := inputInfo.SizeToPath[size]
Exists(info, size) == size \in DOMAIN info.SizeToPath

\* lines 36-87: one iteration of the loop over icnsExpectedSizes
IcnsSize ==
    /\ pc = "icns"
    /\ idx <= Len(icnsExpectedSizes)
    /\ LET size == icnsExpectedSizes[idx]
           Write(imageData, from) ==
               /\ icns' = icns \o Chunks(sizeToType(size), imageData, 1)
               /\ idx' = idx + 1
               /\ trace' = [trace EXCEPT !.payloads =
                              Append(@, [size |-> size, data |-> imageData, from |-> from])]
               /\ UNCHANGED << pc, result, err >>
           Stop(e) ==
               /\ Abort(e)
               /\ trace' = [trace EXCEPT !.stepFailed = TRUE]
               /\ UNCHANGED << idx, icns >>
       IN  IF Skips(size, inputInfo.MaxIconSize)
           THEN /\ idx' = idx + 1
                /\ UNCHANGED << pc, icns, inputInfo, result, err, trace >>
           ELSE IF Exists(inputInfo, size)
           THEN /\ \E ok \in BOOLEAN :
                     IF ok THEN Write(ReadFile(inputInfo.SizeToPath[size]), "file")
                           ELSE Stop(Error("Read", inputInfo.SizeToPath[size], 0))
                /\ UNCHANGED inputInfo
           ELSE \E loaded, encoded \in BOOLEAN :
                   LET master == IF inputInfo.maxImage = NoImage
                                 THEN LoadImage(inputInfo.MaxIconPath)
                                 ELSE inputInfo.maxImage
                   IN  IF inputInfo.maxImage = NoImage /\ ~loaded
                       THEN Stop(Error("Decode", inputInfo.MaxIconPath, 0))
                            /\ UNCHANGED inputInfo
                       ELSE /\ inputInfo' = [inputInfo EXCEPT !.maxImage = master]
                            /\ IF encoded
                               THEN Write(PngEncode(Resize(master, size, size)), "resize")
                               ELSE Stop(Error("Encode", "", 0))
    /\ UNCHANGED << env, resolvedPath, fileIsDir, outFile >>

\* what a Write of data leaves in the file: all of it, or less when it fails
WriteOutcomes == { "ok", "none", "short" }
Written(data, outcome) ==
    CASE outcome = "ok" -> data
      [] outcome = "none" -> << >>
      [] outcome = "short" -> SubSeq(data, 1, Len(data) \div 2)

\* lines 89-104 and 308-311: the header, the temporary file, the three writes
IcnsPersist ==
    /\ pc = "icns"
    /\ idx > Len(icnsExpectedSizes)
    /\ LET lengthBytes == PutUint32(Len(icns) + 8)
       IN  \E created \in BOOLEAN :
              IF ~created
              THEN /\ Abort(Error("TempFile", "", 0))
                   /\ trace' = [trace EXCEPT !.stepFailed = TRUE]
                   /\ UNCHANGED outFile
              ELSE \E w1, w2, w3 \in WriteOutcomes :
                      /\ outFile' = [name |-> TempName(".icns"), created |-> TRUE,
                                     bytes |-> Written(icnsHeader, w1) \o Written(lengthBytes, w2)
                                                 \o Written(icns, w3)]
                      \* the results of the writes are not looked at
                      /\ trace' = [trace EXCEPT !.tempFiles = @ + 1,
                                     !.stepFailed = ({ w1, w2, w3 } # { "ok" })]
                      /\ Return(<< IconInfo(TempName(".icns"), 0) >>)
    /\ UNCHANGED << env, resolvedPath, fileIsDir, inputInfo, idx, icns >>

(***************************************************************************)
(* ICO and the other formats.                                              *)
(***************************************************************************)
\* GetMaxImage: the memoized image, or loadImage of MaxIconPath
GetMaxImage(info) ==
    IF info.maxImage = NoImage
    THEN loadImage(info.MaxIconPath, info.recommendedMinSize)
    ELSE { [img |-> info.maxImage, err |-> NoError] }

\* lines 313-328: the master image to the ICO encoder
ConvertIco ==
    /\ pc = "encode"
    /\ outputFormat = "ico"
    /\ \E r \in GetMaxImage(inputInfo), created, saved \in BOOLEAN :
          IF r.err # NoError
          THEN /\ Abort(r.err)
               /\ trace' = [trace EXCEPT !.stepFailed = TRUE,
                              !.decoded = (@ \/ inputInfo.maxImage = NoImage)]
               /\ UNCHANGED outFile
          ELSE IF ~created
          THEN /\ Abort(Error("TempFile", "", 0))
               /\ trace' = [trace EXCEPT !.stepFailed = TRUE,
                              !.decoded = (@ \/ inputInfo.maxImage = NoImage)]
               /\ UNCHANGED outFile
          ELSE /\ outFile' = [name |-> TempName(outExt), created |-> TRUE,
                              bytes |-> IF saved THEN IcoEncode(r.img) ELSE << >>]
               /\ trace' = [trace EXCEPT !.tempFiles = @ + 1, !.encoderInput = r.img,
                              !.stepFailed = ~saved,
                              !.decoded = (@ \/ inputInfo.maxImage = NoImage)]
               /\ IF saved
                  THEN Return(<< IconInfo(TempName(outExt), 0) >>)
                  ELSE Abort(Error("IcoEncode", TempName(outExt), 0))
    /\ UNCHANGED << env, resolvedPath, fileIsDir, inputInfo, idx, icns >>

\* lines 330-331: no encoder for the format
UnknownFormat ==
    /\ pc = "encode"
    /\ outputFormat \notin { "icns", "ico" }
    /\ Abort(Error("UnknownFormat", resolvedPath, 0))
    /\ trace' = [trace EXCEPT !.stepFailed = TRUE]
    /\ UNCHANGED << env, resolvedPath, fileIsDir, inputInfo, idx, icns, outFile >>

Next ==
    \/ Resolve
    \/ Passthrough
    \/ Directory
    \/ SingleImage
    \/ StartIcns
    \/ IcnsSize
    \/ IcnsPersist
    \/ ConvertIco
    \/ UnknownFormat

Spec == Init /\ [][Next]_vars

(***************************************************************************)
(* What the properties read off a run.                                     *)
(***************************************************************************)
CanonicalSizes == { icnsExpectedSizes[i] : i \in 1..Len(icnsExpectedSizes) }

\* the loop of ConvertToIcns has gone over every expected size
IcnsComplete == outputFormat = "icns" /\ idx > Len(icnsExpectedSizes)

\* a body read back as chunks: 4 tag bytes, a big-endian length of the whole chunk,
\* the payload; bytes that are no chunk end the list with a chunk marked bad
BadChunk == [tag |-> << >>, payload |-> << >>, bad |-> TRUE]
RECURSIVE ParseChunks(_)
ParseChunks(b) ==
    IF Len(b) = 0 THEN << >>
    ELSE IF Len(b) < 8 THEN << BadChunk >>
    ELSE LET n == Uint32(SubSeq(b, 5, 8))
         IN  IF n < 8 \/ n > Len(b) THEN << BadChunk >>
             ELSE << [tag |-> SubSeq(b, 1, 4), payload |-> SubSeq(b, 9, n), bad |-> FALSE] >>
                    \o ParseChunks(SubSeq(b, n + 1, Len(b)))

\* the sizes the chunks of a body are of, by the tags of the table
TagsOf(size) == { Bytes(sizeToType(size)[i]) : i \in 1..Len(sizeToType(size)) }
ChunkSizes(b) ==
    LET chunks == ParseChunks(b)
    IN  { size \in CanonicalSizes : \E i \in 1..Len(chunks) : chunks[i].tag \in TagsOf(size) }

\* the chunks the payloads obtained so far call for: per payload, in order, one chunk
\* per tag of its size, in the order of the table
RECURSIVE ExpectedChunks(_, _, _)
ExpectedChunks(payloads, i, t) ==
    IF i > Len(payloads) THEN << >>
    ELSE IF t > Len(sizeToType(payloads[i].size)) THEN ExpectedChunks(payloads, i + 1, 1)
    ELSE << [tag |-> Bytes(sizeToType(payloads[i].size)[t]), payload |-> payloads[i].data,
             bad |-> FALSE] >> \o ExpectedChunks(payloads, i, t + 1)

\* C1: the sizes chunks are written for are never above MaxIconSize, and once the
\* loop has gone over every size they are exactly the canonical sizes <= MaxIconSize
C1_NeverUpscale ==
    LET written == ChunkSizes(icns)
        allowed == { s \in CanonicalSizes : s <= inputInfo.MaxIconSize }
    IN  /\ written \subseteq allowed
        /\ IcnsComplete => written = allowed

\* C1 witness: a master of 300 has been encoded, with chunks for 16..256 only
C1_Witness ==
    /\ IcnsComplete
    /\ inputInfo.MaxIconSize = 300
    /\ ChunkSizes(icns) = { 16, 32, 64, 128, 256 }

\* C2: the body is, chunk by chunk, the tags of each included size in table order,
\* sizes ascending and each obtained once, every chunk being tag, big-endian
\* len(payload)+8, payload, with the one payload of the size under each of its tags
C2_ChunkLayout ==
    /\ ParseChunks(icns) = ExpectedChunks(trace.payloads, 1, 1)
    /\ \A i, j \in 1..Len(trace.payloads) :
          i < j => trace.payloads[i].size < trace.payloads[j].size
    /\ IcnsComplete =>
         { trace.payloads[i].size : i \in 1..Len(trace.payloads) }
            = { s \in CanonicalSizes : s <= inputInfo.MaxIconSize }

\* C2 witness: a 1024 master fully encoded: 11 chunks, ic08 and ic13 alike
C2_Witness ==
    LET chunks == ParseChunks(icns)
    IN  /\ IcnsComplete
        /\ Len(chunks) = 11
        /\ chunks[7].tag = Bytes("ic08")
        /\ chunks[8].tag = Bytes("ic13")
        /\ chunks[7].payload = chunks[8].payload
        /\ Len(chunks[7].payload) > 0

\* the minimum of the size policy, as the specification states it
PolicyMinimum == IF outputFormat = "icns" THEN 512 ELSE 256

\* C3: a single image that decodes below the minimum of the target format fails with
\* the image-size error of that file and minimum, returns no artifact, and no
\* temporary file exists
C3_MinimumSizeRejection ==
    ( /\ trace.class = "single"
      /\ trace.decoded
      /\ err.kind # "Decode"
      /\ (srcDim[1] < PolicyMinimum \/ srcDim[2] < PolicyMinimum) )
    => /\ pc = "failed"
       /\ err = [kind |-> "ImageSize", file |-> resolvedPath, min |-> PolicyMinimum]
       /\ result = NoResult
       /\ ~outFile.created
       /\ trace.tempFiles = 0

\* C3 witness: a 128x128 source asked as ICO is rejected with minimum 256
C3_Witness ==
    /\ outputFormat = "ico"
    /\ srcDim = << 128, 128 >>
    /\ trace.class = "single"
    /\ err = [kind |-> "ImageSize", file |-> resolvedPath, min |-> 256]

\* the paths resolution probes for one name: itself when absolute, else under each root
RECURSIVE ProbesUnderRoots(_, _)
ProbesUnderRoots(name, i) ==
    IF i > Len(roots) THEN << >>
    ELSE << Join(roots[i], name) >> \o ProbesUnderRoots(name, i + 1)
ProbesOf(name) == IF IsAbs(name) THEN << Clean(name) >> ELSE ProbesUnderRoots(name, 1)

\* the probe sequence: per candidate, its direct probes, then those of its fallback name
RECURSIVE ProbeSequence(_)
ProbeSequence(i) ==
    IF i > Len(sourceFiles) THEN << >>
    ELSE ProbesOf(sourceFiles[i])
           \o (IF outExt = "" THEN << >>
               ELSE ProbesOf(IF outExt = ".png" /\ sourceFiles[i] = "icons"
                             THEN "icon.png" ELSE sourceFiles[i] \o outExt))
           \o ProbeSequence(i + 1)

\* C4: resolution returns the first existing path of the probe sequence, and fails,
\* with NotFound, only when no probe exists
C4_FirstExistingProbe ==
    pc # "start" =>
        LET probes == ProbeSequence(1)
            hits == { i \in 1..Len(probes) : Stat(probes[i]) }
        IN  /\ hits # {} =>
                 /\ pc # "failed" \/ trace.class # ""
                 /\ resolvedPath = probes[CHOOSE i \in hits : \A j \in hits : i <= j]
            /\ (pc = "failed" /\ err.kind = "NotFound") => hits = {}

\* C5: the image handed to the ICO encoder is 256x256 whenever the master it comes
\* from is wider than 256
C5_IcoCap ==
    ( /\ outputFormat = "ico"
      /\ trace.encoderInput # NoImage
      /\ LoadImage(trace.encoderInput.src).w > 256 )
    => trace.encoderInput.w = 256 /\ trace.encoderInput.h = 256

\* the largest collected size
LargestCollected == CHOOSE s \in { collected.sizes[i] : i \in 1..Len(collected.sizes) } :
                        \A i \in 1..Len(collected.sizes) : collected.sizes[i] <= s

\* C6: for a directory the master is the largest collected file, and every payload is
\* the collected file of its size read verbatim when there is one, and otherwise the
\* PNG encoding of the master resized to that size
C6_DirectoryComposition ==
    ( /\ trace.class = "directory"
      /\ outputFormat = "icns"
      /\ pc \in { "encode", "icns", "done", "failed" }
      /\ collected.ok )
    => /\ inputInfo.MaxIconSize = LargestCollected
       /\ inputInfo.MaxIconPath = resolvedPath \o "/" \o SizeName(LargestCollected)
       /\ \A i \in 1..Len(trace.payloads) :
             LET p == trace.payloads[i]
             IN  IF \E k \in 1..Len(collected.sizes) : collected.sizes[k] = p.size
                 THEN /\ p.from = "file"
                      /\ p.data = ReadFile(resolvedPath \o "/" \o SizeName(p.size))
                 ELSE /\ p.from = "resize"
                      /\ p.data = PngEncode([w |-> p.size, h |-> p.size,
                                             src |-> resolvedPath \o "/" \o SizeName(LargestCollected)])

\* C6 witness: files for 16, 32, 256 and 1024; the four are reused, 64, 128 and 512 resized
C6_Witness ==
    /\ trace.class = "directory"
    /\ IcnsComplete
    /\ collected.sizes = << 16, 32, 256, 1024 >>
    /\ fileLen > 0
    /\ { trace.payloads[i].size : i \in { j \in 1..Len(trace.payloads) : trace.payloads[j].from = "file" } }
          = { 16, 32, 256, 1024 }
    /\ { trace.payloads[i].size : i \in { j \in 1..Len(trace.payloads) : trace.payloads[j].from = "resize" } }
          = { 64, 128, 512 }

\* C7: an icns target whose resolved path ends in .icns returns that path as the one
\* artifact, with no size, and nothing was validated, decoded, collected or created
C7_Passthrough ==
    ( /\ outputFormat = "icns"
      /\ HasSuffix(resolvedPath, ".icns")
      /\ pc \notin { "start", "classify" } )
    => /\ pc = "done"
       /\ result = << [File |-> resolvedPath, Size |-> 0] >>
       /\ Stat(resolvedPath)
       /\ ~trace.validated /\ ~trace.decoded /\ ~trace.collectCalled
       /\ ~outFile.created /\ trace.tempFiles = 0

\* C7 witness: "icon" resolved to /p/icon.icns by the fallback extension and returned
C7_Witness ==
    /\ outputFormat = "icns"
    /\ pc = "done"
    /\ sourceFiles = << "icon" >>
    /\ result = << [File |-> "/p/icon.icns", Size |-> 0] >>

\* C8: no artifact list is returned once a step of the run has failed
C8_FailureAborts == pc = "done" => ~trace.stepFailed

\* C9: a produced container starts with "icns" and a big-endian length that is the
\* length of the whole file, which is the length of the body + 8
C9_HeaderLength ==
    (pc = "done" /\ outputFormat = "icns" /\ outFile.created)
    => /\ Len(outFile.bytes) >= 8
       /\ SubSeq(outFile.bytes, 1, 4) = << 105, 99, 110, 115 >>
       /\ Uint32(SubSeq(outFile.bytes, 5, 8)) = Len(outFile.bytes)
       /\ Uint32(SubSeq(outFile.bytes, 5, 8)) = Len(SubSeq(outFile.bytes, 9, Len(outFile.bytes))) + 8

\* C10: a run that has stopped has stopped in Done or in Failed
C10_EndsDoneOrFailed == pc \in { "done", "failed" } \/ ENABLED Next

=============================================================================
